---- MODULE Spec2Model ----
(***************************************************************************)
(* A model of the Sudoku solver of sudoku.c: the grid with its row, column *)
(* and square bit masks, the two solving methods step1 (fill the cells     *)
(* that have one available value) and step2 (recursive trial of every      *)
(* available value in the first empty cell), and the driver main.          *)
(*                                                                         *)
(* A uint16_t bit mask is modelled as the set of its set bit positions:    *)
(* `a & b' is intersection, `a & ~bit' is set difference, 0x1FF is 0..8.   *)
(***************************************************************************)
EXTENDS Integers, Sequences, FiniteSets, TLC

VARIABLES
    pc,        \* where the driver is: "step1", "main", "step2" or "done"
    sudoku,    \* main's Sudoku struct, the one step1 works on in place
    orig,      \* the struct as load_sudoku/init_sudoku left it
    stack,     \* the call stack of step2, one frame per active call
    ret,       \* the value the last finished step2 call returned (-1: none)
    r1,        \* the value step1 returned (-1: not yet)
    restarts,  \* the number of times step1 jumped to next_single_value_cell
    out,       \* what was printed on stdout after "Solution:", in order
    msg,       \* the line main printed on stderr
    alt,       \* a second copy of the loaded struct, for forced fills in any order
    altres     \* the result of filling in any order (-1: still going)

vars == <<pc, sudoku, orig, stack, ret, r1, restarts, out, msg, alt, altres>>

-----------------------------------------------------------------------------
\* The grid

\* The number of rows, columns, and values.
N == 9

\* The side of a square.
SQ == 3

Idx == 0..(N - 1)

Cells == Idx \X Idx

Values == 1..N

\* The position of cell p in a row-by-row scan.
ScanPos(p) == N * p[1] + p[2]

\* The square that cell <<row, col>> is in.
Square(row, col) == <<row \div SQ, col \div SQ>>

\* #define BIT_FOR_VALUE(val) (1 << ((val) - 1)): the bit it sets.
BIT_FOR_VALUE(val) == val - 1

\* 0x1FF: bits 0-8.
ALL_AVAILABLE == 0..8

\* init_sudoku with the update of the square masks left out.
init_sudoku_no_sqr(cell) ==
    [row  |-> [r \in Idx |->
                 ALL_AVAILABLE \ {BIT_FOR_VALUE(cell[<<r, c>>]) :
                                    c \in {c \in Idx : cell[<<r, c>>] # 0}}],
     col  |-> [c \in Idx |->
                 ALL_AVAILABLE \ {BIT_FOR_VALUE(cell[<<r, c>>]) :
                                    r \in {r \in Idx : cell[<<r, c>>] # 0}}],
     sqr  |-> [s \in (0..(SQ - 1)) \X (0..(SQ - 1)) |-> ALL_AVAILABLE],
     cell |-> cell]

\* init_sudoku: start every mask at 0x1FF, then clear the bit of every filled
\* cell in the masks of its row, column and square.
init_sudoku(cell) ==
    [row  |-> [r \in Idx |->
                 ALL_AVAILABLE \ {BIT_FOR_VALUE(cell[<<r, c>>]) :
                                    c \in {c \in Idx : cell[<<r, c>>] # 0}}],
     col  |-> [c \in Idx |->
                 ALL_AVAILABLE \ {BIT_FOR_VALUE(cell[<<r, c>>]) :
                                    r \in {r \in Idx : cell[<<r, c>>] # 0}}],
     sqr  |-> [s \in (0..(SQ - 1)) \X (0..(SQ - 1)) |->
                 ALL_AVAILABLE \ {BIT_FOR_VALUE(cell[p]) :
                                    p \in {p \in Cells : /\ Square(p[1], p[2]) = s
                                                         /\ cell[p] # 0}}],
     cell |-> cell]

\* fill_cell with the write to the cell left out.
fill_cell_masks_only(s, row, col, value) ==
    [s EXCEPT !.row[row] = @ \ {BIT_FOR_VALUE(value)},
              !.col[col] = @ \ {BIT_FOR_VALUE(value)},
              !.sqr[Square(row, col)] = @ \ {BIT_FOR_VALUE(value)}]

\* fill_cell with the update of the column mask left out.
fill_cell_keeps_col(s, row, col, value) ==
    [s EXCEPT !.cell[<<row, col>>] = value,
              !.row[row] = @ \ {BIT_FOR_VALUE(value)},
              !.sqr[Square(row, col)] = @ \ {BIT_FOR_VALUE(value)}]

\* fill_cell: write the value and clear its bit in the three masks.
fill_cell(s, row, col, value) ==
    [s EXCEPT !.cell[<<row, col>>] = value,
              !.row[row] = @ \ {BIT_FOR_VALUE(value)},
              !.col[col] = @ \ {BIT_FOR_VALUE(value)},
              !.sqr[Square(row, col)] = @ \ {BIT_FOR_VALUE(value)}]

\* available_values_in_cell: the AND of the three masks.
available_values_in_cell(s, row, col) ==
    s.row[row] \cap s.col[col] \cap s.sqr[Square(row, col)]

\* The table filled in wrongly: the lowest value of any mask that is not 0.
lowest_available_value(mask) ==
    IF mask \cap ALL_AVAILABLE # {}
    THEN CHOOSE v \in Values :
            /\ BIT_FOR_VALUE(v) \in mask
            /\ \A w \in Values : BIT_FOR_VALUE(w) \in mask => v <= w
    ELSE 0

\* The table only_possible_value[1 << 9]: the value of a mask with one bit set,
\* 0 for every other mask.
only_possible_value(mask) ==
    IF \E v \in Values : mask = {BIT_FOR_VALUE(v)}
    THEN CHOOSE v \in Values : mask = {BIT_FOR_VALUE(v)}
    ELSE 0

\* The empty cells of a struct.
EmptyCells(s) == {p \in Cells : s.cell[p] = 0}

\* The first cell of a set in the row-by-row scan.
FirstInScan(S) == CHOOSE p \in S : \A q \in S : ScanPos(p) <= ScanPos(q)

\* find_empty_cell with both loops running down from 8: the last empty cell.
find_empty_cell_from_end(s) ==
    IF EmptyCells(s) = {} THEN <<0, N, N>>
    ELSE LET p == CHOOSE p \in EmptyCells(s) :
                     \A q \in EmptyCells(s) : ScanPos(q) <= ScanPos(p)
         IN  <<1, p[1], p[2]>>

\* find_empty_cell: <<1, row, col>> of the first empty cell, <<0, 9, 9>> if none
\* (both loop variables have run to 9).
find_empty_cell(s) ==
    IF EmptyCells(s) = {} THEN <<0, N, N>>
    ELSE LET p == FirstInScan(EmptyCells(s)) IN <<1, p[1], p[2]>>

-----------------------------------------------------------------------------
\* The input

\* A solved grid; the loaded grids differ from it in the open cells only.
Base ==
    << <<5, 3, 4, 6, 7, 8, 9, 1, 2>>,
       <<6, 7, 2, 1, 9, 5, 3, 4, 8>>,
       <<1, 9, 8, 3, 4, 2, 5, 6, 7>>,
       <<8, 5, 9, 7, 6, 1, 4, 2, 3>>,
       <<4, 2, 6, 8, 5, 3, 7, 9, 1>>,
       <<7, 1, 3, 9, 2, 4, 8, 5, 6>>,
       <<9, 6, 1, 5, 3, 7, 2, 8, 4>>,
       <<2, 8, 7, 4, 1, 9, 6, 3, 5>>,
       <<3, 4, 5, 2, 8, 6, 1, 7, 9>> >>

BaseCell == [p \in Cells |-> Base[p[1] + 1][p[2] + 1]]

\* The cells an input may differ in, in the order they are opened up.
OpenSeq == << <<1, 3>>, <<1, 5>>, <<3, 3>>, <<3, 5>>, <<6, 3>>, <<6, 5>>, <<4, 5>>,
              <<1, 1>>, <<3, 8>> >>

\* How many cells of OpenSeq an input may differ in.
MaxOpen == 7

\* The same, for the inputs that may repeat a digit.
MaxOpenAny == 4

Open(k) == {OpenSeq[i] : i \in 1..k}

\* What load_sudoku may put in an open cell: 0 (no digit in the file) or a digit.
\* A digit that is not the solved grid's digit of some open cell already stands
\* in the row, the column and the square of every open cell.
OpenDigits(k) == {0} \cup {BaseCell[p] : p \in Open(k)}

\* Two cells share a row, a column or a square.
SameUnit(p, q) ==
    \/ p[1] = q[1]
    \/ p[2] = q[2]
    \/ Square(p[1], p[2]) = Square(q[1], q[2])

\* Digit v at cell p repeats no digit of the cells.
Fits(cell, p, v) ==
    \A q \in Cells : (q # p /\ SameUnit(p, q)) => cell[q] # v

\* The rows, the columns and the squares, each as its set of cells.
Units ==
    {{<<r, c>> : c \in Idx} : r \in Idx} \cup
    {{<<r, c>> : r \in Idx} : c \in Idx} \cup
    {{p \in Cells : Square(p[1], p[2]) = s} : s \in (0..(SQ - 1)) \X (0..(SQ - 1))}

\* The digits that stand in the cells of u.
DigitsIn(cell, u) == {cell[p] : p \in u} \ {0}

\* No digit twice in a row, column or square.
DupFree(cell) ==
    \A u \in Units :
        Cardinality(DigitsIn(cell, u)) = Cardinality({p \in u : cell[p] # 0})

\* The cells as load_sudoku read them, given the content h of the open cells.
Loaded(h) == [p \in Cells |-> IF p \in DOMAIN h THEN h[p] ELSE BaseCell[p]]

\* The contents of the MaxOpen open cells that repeat no digit and leave all
\* but the first k open cells empty.
RECURSIVE Inputs(_)
Inputs(k) ==
    IF k = 0 THEN {[p \in Open(MaxOpen) |-> 0]}
    ELSE UNION {{[h EXCEPT ![OpenSeq[k]] = v] :
                    v \in {v \in OpenDigits(MaxOpen) :
                             v = 0 \/ Fits(Loaded(h), OpenSeq[k], v)}} :
                h \in Inputs(k - 1)}

InitWith(cell) ==
    /\ pc = "step1"
    /\ sudoku = init_sudoku(cell)
    /\ orig = init_sudoku(cell)
    /\ alt = init_sudoku(cell)
    /\ stack = <<>>
    /\ ret = -1
    /\ r1 = -1
    /\ restarts = 0
    /\ out = <<>>
    /\ msg = ""
    /\ altres = -1

\* After load_sudoku, for the inputs that repeat no digit.
Init ==
    \E h \in Inputs(MaxOpen) : InitWith(Loaded(h))

\* After load_sudoku, for any digits in the open cells.
InitAny ==
    \E h \in [Open(MaxOpenAny) -> OpenDigits(MaxOpenAny)] : InitWith(Loaded(h))

-----------------------------------------------------------------------------
\* step1

\* step1's scan with `> 1' for `> 0': a cell whose one value is 1 is passed by.
SingleValueCells_above_1(s) ==
    {p \in EmptyCells(s) :
        only_possible_value(available_values_in_cell(s, p[1], p[2])) > 1}

\* The cells where step1's scan would stop: empty, with one available value.
SingleValueCells(s) ==
    {p \in EmptyCells(s) :
        only_possible_value(available_values_in_cell(s, p[1], p[2])) > 0}

\* One run of the scan that finds a cell to fill: fill it and start over.
Step1Fill ==
    /\ pc = "step1"
    /\ SingleValueCells(sudoku) # {}
    /\ LET p == FirstInScan(SingleValueCells(sudoku))
           the_only_possible_value ==
               only_possible_value(available_values_in_cell(sudoku, p[1], p[2]))
       IN  sudoku' = fill_cell(sudoku, p[1], p[2], the_only_possible_value)
    /\ restarts' = restarts + 1
    /\ UNCHANGED <<pc, orig, stack, ret, r1, out, msg, alt, altres>>

\* step1 without the test of empty_cell_count.
step1_result_always_1(s) == 1

\* What step1 returns when the scan ran to the end.
step1_result(s) == IF Cardinality(EmptyCells(s)) = 0 THEN 1 ELSE 0

\* The scan ran to the end: print the solution and return 1, or return 0.
Step1Return ==
    /\ pc = "step1"
    /\ SingleValueCells(sudoku) = {}
    /\ r1' = step1_result(sudoku)
    /\ out' = IF step1_result(sudoku) = 1
              THEN Append(out, [by |-> "step1", grid |-> sudoku.cell])
              ELSE out
    /\ pc' = "main"
    /\ UNCHANGED <<sudoku, orig, stack, ret, restarts, msg, alt, altres>>

-----------------------------------------------------------------------------
\* step2

\* The frame of a call of step2 that has just been entered.
Frame(s) ==
    [s |-> s, row |-> 0, col |-> 0, available_values |-> {}, value |-> 0,
     at |-> "entry"]

Top == stack[Len(stack)]

Pop == SubSeq(stack, 1, Len(stack) - 1)

SetTop(f) == [stack EXCEPT ![Len(stack)] = f]

InStep2 == pc = "step2" /\ stack # <<>>

\* No empty cell: print the solution and return 1.
Step2Solved ==
    /\ InStep2 /\ Top.at = "entry"
    /\ find_empty_cell(Top.s)[1] = 0
    /\ out' = Append(out, [by |-> "step2", grid |-> Top.s.cell])
    /\ ret' = 1
    /\ stack' = Pop
    /\ UNCHANGED <<pc, sudoku, orig, r1, restarts, msg, alt, altres>>

\* Nothing available for the first empty cell, and 1 returned for it.
Step2PruneReturns1 ==
    /\ InStep2 /\ Top.at = "entry"
    /\ LET e == find_empty_cell(Top.s) IN
         /\ e[1] = 1
         /\ available_values_in_cell(Top.s, e[2], e[3]) = {}
    /\ ret' = 1
    /\ stack' = Pop
    /\ UNCHANGED <<pc, sudoku, orig, r1, restarts, out, msg, alt, altres>>

\* Nothing available for the first empty cell: return 0.
Step2Prune ==
    /\ InStep2 /\ Top.at = "entry"
    /\ LET e == find_empty_cell(Top.s) IN
         /\ e[1] = 1
         /\ available_values_in_cell(Top.s, e[2], e[3]) = {}
    /\ ret' = 0
    /\ stack' = Pop
    /\ UNCHANGED <<pc, sudoku, orig, r1, restarts, out, msg, alt, altres>>

\* Something is available: enter the loop over the values.
Step2Begin ==
    /\ InStep2 /\ Top.at = "entry"
    /\ LET e == find_empty_cell(Top.s) IN
         /\ e[1] = 1
         /\ available_values_in_cell(Top.s, e[2], e[3]) # {}
         /\ stack' = SetTop([Top EXCEPT
                !.row = e[2], !.col = e[3],
                !.available_values = available_values_in_cell(Top.s, e[2], e[3]),
                !.value = 1, !.at = "loop"])
    /\ UNCHANGED <<pc, sudoku, orig, ret, r1, restarts, out, msg, alt, altres>>

\* The struct a call passes down for a value: a copy with the cell filled.
new_sudoku(f) == fill_cell(f.s, f.row, f.col, f.value)

\* <value> is available: copy, fill the cell in the copy, call step2 on it.
Step2Try ==
    /\ InStep2 /\ Top.at = "loop"
    /\ Top.value <= N
    /\ BIT_FOR_VALUE(Top.value) \in Top.available_values
    /\ stack' = Append(SetTop([Top EXCEPT !.at = "called"]), Frame(new_sudoku(Top)))
    /\ UNCHANGED <<pc, sudoku, orig, ret, r1, restarts, out, msg, alt, altres>>

\* <value> is not available: on to the next value.
Step2Skip ==
    /\ InStep2 /\ Top.at = "loop"
    /\ Top.value <= N
    /\ BIT_FOR_VALUE(Top.value) \notin Top.available_values
    /\ stack' = SetTop([Top EXCEPT !.value = @ + 1])
    /\ UNCHANGED <<pc, sudoku, orig, ret, r1, restarts, out, msg, alt, altres>>

\* The call returned 1: return 1.
Step2Found ==
    /\ InStep2 /\ Top.at = "called"
    /\ ret = 1
    /\ stack' = Pop
    /\ UNCHANGED <<pc, sudoku, orig, ret, r1, restarts, out, msg, alt, altres>>

\* The call returned 0 and the loop is left at once.
Step2BackGivesUp ==
    /\ InStep2 /\ Top.at = "called"
    /\ ret = 0
    /\ stack' = Pop
    /\ UNCHANGED <<pc, sudoku, orig, ret, r1, restarts, out, msg, alt, altres>>

\* The call returned 0: on to the next value.
Step2Back ==
    /\ InStep2 /\ Top.at = "called"
    /\ ret = 0
    /\ stack' = SetTop([Top EXCEPT !.value = @ + 1, !.at = "loop"])
    /\ ret' = -1
    /\ UNCHANGED <<pc, sudoku, orig, r1, restarts, out, msg, alt, altres>>

\* The loop ran out of values: return 0.
Step2Exhausted ==
    /\ InStep2 /\ Top.at = "loop"
    /\ Top.value > N
    /\ ret' = 0
    /\ stack' = Pop
    /\ UNCHANGED <<pc, sudoku, orig, r1, restarts, out, msg, alt, altres>>

Step2 ==
    \/ Step2Solved
    \/ Step2Prune
    \/ Step2Begin
    \/ Step2Try
    \/ Step2Skip
    \/ Step2Found
    \/ Step2Back
    \/ Step2Exhausted

-----------------------------------------------------------------------------
\* main

\* if (step1(&sudoku)): method 1 found a solution.
MainMethod1 ==
    /\ pc = "main"
    /\ r1 = 1
    /\ msg' = "Found a solution using method 1."
    /\ pc' = "done"
    /\ UNCHANGED <<sudoku, orig, stack, ret, r1, restarts, out, alt, altres>>

\* main handing a copy of the loaded struct to step2.
step2_argument_loaded == orig

\* The struct main hands to step2.
step2_argument == sudoku

\* else if (step2(&sudoku)): the call.
MainCallStep2 ==
    /\ pc = "main"
    /\ r1 = 0
    /\ stack' = <<Frame(step2_argument)>>
    /\ pc' = "step2"
    /\ UNCHANGED <<sudoku, orig, ret, r1, restarts, out, msg, alt, altres>>

\* step2 returned: method 2 found a solution, or there is none.
MainAfterStep2 ==
    /\ pc = "step2"
    /\ stack = <<>>
    /\ msg' = IF ret = 1 THEN "Found a solution using method 2."
                         ELSE "Could not find a solution."
    /\ pc' = "done"
    /\ UNCHANGED <<sudoku, orig, stack, ret, r1, restarts, out, alt, altres>>

Next ==
    \/ Step1Fill
    \/ Step1Return
    \/ MainMethod1
    \/ MainCallStep2
    \/ Step2
    \/ MainAfterStep2

Spec == Init /\ [][Next]_vars

-----------------------------------------------------------------------------
\* step2 called on the loaded struct itself

\* step2(&loaded): the call, whatever step1 made of main's struct.
DirectCallStep2 ==
    /\ pc = "main"
    /\ stack' = <<Frame(orig)>>
    /\ pc' = "step2"
    /\ UNCHANGED <<sudoku, orig, ret, r1, restarts, out, msg, alt, altres>>

NextDirect ==
    \/ Step1Fill
    \/ Step1Return
    \/ DirectCallStep2
    \/ Step2
    \/ MainAfterStep2

SpecDirect == Init /\ [][NextDirect]_vars

\* The same on inputs that may repeat a digit; the program keeps running.
SpecAnyInput == InitAny /\ [][NextDirect]_vars /\ WF_vars(NextDirect)

-----------------------------------------------------------------------------
\* step1's fills in any order

\* Fill some empty cell that has one available value, wherever it is.
AnyFill ==
    /\ pc = "main"
    /\ altres = -1
    /\ \E p \in Cells :
         LET available_values == available_values_in_cell(alt, p[1], p[2]) IN
         /\ alt.cell[p] = 0
         /\ Cardinality(available_values) = 1
         /\ alt' = fill_cell(alt, p[1], p[2],
                             CHOOSE v \in Values : BIT_FOR_VALUE(v) \in available_values)
    /\ UNCHANGED <<pc, sudoku, orig, stack, ret, r1, restarts, out, msg, altres>>

\* No such cell is left: 1 if no cell is empty, else 0.
AnyStop ==
    /\ pc = "main"
    /\ altres = -1
    /\ \A p \in Cells :
         alt.cell[p] = 0 =>
             Cardinality(available_values_in_cell(alt, p[1], p[2])) # 1
    /\ altres' = IF \A p \in Cells : alt.cell[p] # 0 THEN 1 ELSE 0
    /\ UNCHANGED <<pc, sudoku, orig, stack, ret, r1, restarts, out, msg, alt>>

NextAnyOrder ==
    \/ Step1Fill
    \/ Step1Return
    \/ AnyFill
    \/ AnyStop

SpecAnyOrder == Init /\ [][NextAnyOrder]_vars

-----------------------------------------------------------------------------
\* What the claims speak of

\* A grid with every digit once in every row, column and square.
ValidGrid(cell) == \A u \in Units : DigitsIn(cell, u) = Values

\* The valid completions of a grid: the valid grids that agree with it on its
\* filled cells.
RECURSIVE Completions(_)
Completions(cell) ==
    IF \A p \in Cells : cell[p] # 0
    THEN IF ValidGrid(cell) THEN {cell} ELSE {}
    ELSE LET p == CHOOSE q \in Cells : cell[q] = 0 IN
         UNION {Completions([cell EXCEPT ![p] = v]) :
                    v \in {v \in Values : Fits(cell, p, v)}}

\* Grid g agrees with the struct s on the cells that s has filled.
Extends(g, s) == \A p \in Cells : s.cell[p] # 0 => g[p] = s.cell[p]

\* The grids printed by step1 or by step2.
PrintedBy(who) == {out[i].grid : i \in {i \in DOMAIN out : out[i].by = who}}

\* a comes no later than b when the grids are compared cell by cell, row by row.
LexLeq(a, b) ==
    \/ a = b
    \/ LET d == FirstInScan({p \in Cells : a[p] # b[p]}) IN a[d] < b[d]

\* The structs that step2 is working on.
Step2Structs == {stack[i].s : i \in DOMAIN stack}

\* Some empty cell of s has no available value.
HasDeadCell(s) ==
    \E p \in EmptyCells(s) : available_values_in_cell(s, p[1], p[2]) = {}

\* The top-level call of step2 has returned.
Step2Returned == pc \in {"step2", "done"} /\ stack = <<>> /\ ret # -1

-----------------------------------------------------------------------------
\* C1

\* C1: when step2, called on a loaded grid that repeats no digit, returns 1, it has
\* printed a grid, and every grid it printed has no empty cell, has every digit once
\* in every row, column and square, and agrees with the loaded grid on its filled
\* cells.
C1_Step2Sound ==
    /\ (Step2Returned /\ ret = 1) => PrintedBy("step2") # {}
    /\ \A g \in PrintedBy("step2") :
          /\ \A p \in Cells : g[p] \in Values
          /\ ValidGrid(g)
          /\ Extends(g, orig)

C1_Witness ==
    /\ Step2Returned /\ ret = 1
    /\ Cardinality(EmptyCells(orig)) >= 4
    /\ PrintedBy("step2") # {}

-----------------------------------------------------------------------------
\* C2

\* C2: step2, called on a loaded grid that repeats no digit, returns 1 if the grid
\* has a valid completion and 0 if it has none; and a call that finds nothing
\* available for its first empty cell is working on a struct without a valid
\* completion.
C2_Step2Complete ==
    /\ Step2Returned =>
          (ret = IF Completions(orig.cell) # {} THEN 1 ELSE 0)
    /\ (stack # <<>> /\ Top.at = "entry" /\ find_empty_cell(Top.s)[1] = 1
          /\ available_values_in_cell(Top.s, find_empty_cell(Top.s)[2],
                                      find_empty_cell(Top.s)[3]) = {})
       => Completions(Top.s.cell) = {}

\* step2 returned 1 on a grid where a lower value was available for the first
\* empty cell than the one the printed grid has there: its trial failed.
C2_Witness ==
    /\ Step2Returned /\ ret = 1
    /\ Completions(orig.cell) # {}
    /\ LET e == find_empty_cell(orig) IN
         /\ e[1] = 1
         /\ \E g \in PrintedBy("step2") : \E v \in 1..(g[<<e[2], e[3]>>] - 1) :
               BIT_FOR_VALUE(v) \in available_values_in_cell(orig, e[2], e[3])

-----------------------------------------------------------------------------
\* C3

\* C3 as stated: the struct main passes to step2 has the cells and the masks that
\* load_sudoku/init_sudoku produced.
C3_Step2GetsLoadedGrid ==
    (pc = "step2" /\ stack # <<>>) => stack[1].s = orig

\* C3, amended: the struct main passes to step2 is its own struct as step1 left
\* it: the loaded grid with the cells step1 filled, one per restart, and the masks
\* of that grid; it is the loaded struct only if step1 filled no cell.
C3_Step2GetsStep1Grid ==
    (pc = "step2" /\ stack # <<>>) =>
        /\ stack[1].s = sudoku
        /\ Extends(sudoku.cell, orig)
        /\ Cardinality(EmptyCells(sudoku)) = Cardinality(EmptyCells(orig)) - restarts
        /\ sudoku = init_sudoku(sudoku.cell)
        /\ SingleValueCells(sudoku) = {}
        /\ (restarts > 0 => stack[1].s # orig)

\* step2 runs after step1 filled cells and gave up on a grid that can be completed.
C3_Witness ==
    /\ pc = "step2" /\ stack # <<>>
    /\ restarts > 0
    /\ Completions(orig.cell) # {}

-----------------------------------------------------------------------------
\* C4

\* C4: on a loaded grid that repeats no digit and has a valid completion, the
\* cells of main's struct, which only step1 fills, agree at every moment with every
\* valid completion of the loaded grid: the grid keeps a valid completion, and
\* each value step1 writes is the value of its cell in all of them.
C4_Step1Sound ==
    Completions(orig.cell) # {} =>
        \A g \in Completions(orig.cell) : Extends(g, sudoku)

\* step1 has filled cells of a grid that has two valid completions.
C4_Witness ==
    /\ restarts >= 1
    /\ Cardinality(Completions(orig.cell)) >= 2
    /\ r1 = 0

-----------------------------------------------------------------------------
\* C5

\* C5: when step1 returns 1 on a loaded grid that repeats no digit, step2 called on
\* the loaded grid returns 1 too, and both print the same grid, the one valid
\* completion of the loaded grid.
C5_Agreement ==
    (Step2Returned /\ r1 = 1) =>
        /\ ret = 1
        /\ PrintedBy("step1") = {sudoku.cell}
        /\ PrintedBy("step2") = {sudoku.cell}
        /\ Completions(orig.cell) = {sudoku.cell}

\* Both returned 1 on a grid with five or more empty cells.
C5_Witness ==
    /\ Step2Returned /\ r1 = 1 /\ ret = 1
    /\ Cardinality(EmptyCells(orig)) >= 5

-----------------------------------------------------------------------------
\* C6

\* C6: when step1 has stopped on a loaded grid that repeats no digit and some empty
\* cell of main's struct has no available value, step1 returned 0 and printed
\* nothing, step2 returns 0 too, and main reports that it could not find a solution.
C6_DeadCell ==
    (r1 # -1 /\ HasDeadCell(sudoku)) =>
        /\ r1 = 0
        /\ out = <<>>
        /\ Step2Returned => ret = 0
        /\ pc = "done" => msg = "Could not find a solution."

\* main gave up on a grid where step1 filled cells and step2 had values to try
\* in the first empty cell.
C6_Witness ==
    /\ pc = "done"
    /\ HasDeadCell(sudoku)
    /\ restarts > 0
    /\ msg = "Could not find a solution."
    /\ LET e == find_empty_cell(sudoku) IN
         available_values_in_cell(sudoku, e[2], e[3]) # {}

-----------------------------------------------------------------------------
\* C7

\* The number of empty cells of a struct.
empty_cell_count(s) == Cardinality(EmptyCells(s))

C7_Bounded ==
    /\ restarts <= empty_cell_count(orig)
    /\ empty_cell_count(sudoku) = empty_cell_count(orig) - restarts
    /\ Extends(sudoku.cell, orig)
    /\ stack # <<>> =>
          /\ stack[1].s = orig
          /\ Len(stack) - 1 <= empty_cell_count(orig)
          /\ \A i \in 2..Len(stack) :
                empty_cell_count(stack[i].s) = empty_cell_count(stack[i - 1].s) - 1

C7_OneFillPerRestart ==
    restarts' # restarts =>
        /\ restarts' = restarts + 1
        /\ \E p \in EmptyCells(sudoku) :
              /\ sudoku'.cell[p] # 0
              /\ \A q \in Cells \ {p} : sudoku'.cell[q] = sudoku.cell[q]

\* C7: on any loaded grid with E empty cells, step1 restarts its scan at most E
\* times, each time after one fill of a cell that was empty; step2 never has more
\* than E calls below the first one, each on a struct with one empty cell less than
\* its caller's; and both return: the program comes to its end.
C7_Terminates ==
    /\ []C7_Bounded
    /\ [][C7_OneFillPerRestart]_vars
    /\ <>(pc = "done")

\* step2 is as deep as the loaded grid has empty cells, after step1 restarted
\* once for each of them.
C7_Witness ==
    /\ empty_cell_count(orig) = MaxOpenAny
    /\ Len(stack) = empty_cell_count(orig) + 1
    /\ restarts = empty_cell_count(orig)

-----------------------------------------------------------------------------
\* C8

\* A mask has a bit for every value that no cell of the unit has, and no other.
MaskFor(cell, u) == {BIT_FOR_VALUE(v) : v \in Values \ DigitsIn(cell, u)}

MasksExact(s) ==
    /\ \A r \in Idx :
          /\ s.row[r] \subseteq 0..8
          /\ s.row[r] = MaskFor(s.cell, {<<r, c>> : c \in Idx})
    /\ \A c \in Idx :
          /\ s.col[c] \subseteq 0..8
          /\ s.col[c] = MaskFor(s.cell, {<<r, c>> : r \in Idx})
    /\ \A q \in (0..(SQ - 1)) \X (0..(SQ - 1)) :
          /\ s.sqr[q] \subseteq 0..8
          /\ s.sqr[q] = MaskFor(s.cell, {p \in Cells : Square(p[1], p[2]) = q})

\* For an empty cell, available_values_in_cell is the set of the values that
\* stand nowhere in its row, column and square.
AvailableExact(s) ==
    \A p \in EmptyCells(s) :
        available_values_in_cell(s, p[1], p[2]) =
            {BIT_FOR_VALUE(v) : v \in {v \in Values : Fits(s.cell, p, v)}}

\* The bit of the value is set in the three masks of the cell.
BitSetInAll(s, row, col, value) ==
    /\ BIT_FOR_VALUE(value) \in s.row[row]
    /\ BIT_FOR_VALUE(value) \in s.col[col]
    /\ BIT_FOR_VALUE(value) \in s.sqr[Square(row, col)]

C8_Structs ==
    /\ \A s \in {sudoku} \cup Step2Structs :
          MasksExact(s) /\ AvailableExact(s) /\ DupFree(s.cell)
    /\ \A i \in 2..Len(stack) :
          LET f == stack[i - 1] IN
          /\ stack[i].s = fill_cell(f.s, f.row, f.col, f.value)
          /\ BitSetInAll(f.s, f.row, f.col, f.value)

C8_Step1Fills ==
    \A p \in Cells :
        sudoku'.cell[p] # sudoku.cell[p] =>
            BitSetInAll(sudoku, p[1], p[2], sudoku'.cell[p])

\* C8: from a loaded grid that repeats no digit, in main's struct and in every
\* struct step2 works on, each mask is within bits 0..8 and has the bit of exactly
\* the values its row, column or square lacks; available_values_in_cell of an
\* empty cell is the set of values absent from its row, column and square; no
\* digit stands twice in a row, column or square; and every fill_cell, in step1
\* and in step2, is of a value whose bit is set in the three masks.
C8_MaskInvariant ==
    /\ []C8_Structs
    /\ [][C8_Step1Fills]_vars

\* step2 is three calls deep on structs that step1 has filled cells of.
C8_Witness ==
    /\ restarts > 0
    /\ Len(stack) >= 3

-----------------------------------------------------------------------------
\* C9

C9_LeastCompletion ==
    /\ (Step2Returned /\ Completions(orig.cell) # {}) =>
          \E g \in Completions(orig.cell) :
             /\ PrintedBy("step2") = {g}
             /\ \A h \in Completions(orig.cell) : LexLeq(g, h)
    /\ stack # <<>> => stack[1].s = orig

C9_StructsKept ==
    \A i \in DOMAIN stack \cap DOMAIN stack' : stack'[i].s = stack[i].s

\* C9: on a loaded grid that repeats no digit and has a valid completion, step2
\* prints one grid, the valid completion that comes first when grids are compared
\* cell by cell, row by row; and no call of step2 changes the struct it was given.
C9_FirstFound ==
    /\ []C9_LeastCompletion
    /\ [][C9_StructsKept]_vars

\* step2 returned on a grid with two or more valid completions.
C9_Witness ==
    /\ Step2Returned
    /\ Cardinality(Completions(orig.cell)) >= 2
    /\ PrintedBy("step2") # {}

-----------------------------------------------------------------------------
\* C10

\* C10: on a loaded grid that repeats no digit and has a valid completion, filling
\* single-value cells in any order until none is left ends in the struct step1
\* ends in, with step1's result.
C10_Confluent ==
    (r1 # -1 /\ altres # -1 /\ Completions(orig.cell) # {}) =>
        /\ alt = sudoku
        /\ altres = r1

\* Both have stopped, after four fills or more, on a grid that had three or more
\* single-value cells to pick the first fill from.
C10_Witness ==
    /\ r1 # -1 /\ altres # -1
    /\ Completions(orig.cell) # {}
    /\ Cardinality(SingleValueCells(orig)) >= 3
    /\ restarts >= 4

====
